---- MODULE Spec2Model ----
(***************************************************************************)
(* Model of client_server/server.js: a relay between one serial device and *)
(* a set of token-authenticated WebSocket clients.                         *)
(*                                                                         *)
(* Text is modelled as a run-length encoded string: a sequence of runs     *)
(* <<ch, n>> (n copies of the character ch), kept in normal form (adjacent *)
(* runs have different characters), so that equal texts are equal values   *)
(* and a 1024-character residue is one run.  Bytes coming from the device  *)
(* are sequences of byte runs; Decode models Buffer.toString() (UTF-8).    *)
(***************************************************************************)
EXTENDS Integers, Sequences, FiniteSets, TLC

\* ------------------------------------------------------------------ bounds
MaxHandles == 3    \* SerialPort objects created by initSerialPort
MaxErrors  == 1    \* 'error' events the device emits
MaxBuffered == 1   \* characters a 'data' event leaves unframed (lifecycle specification)
MaxClients == 2    \* WebSocket connections accepted
MaxBytes   == 3    \* byte runs of the input of the framing specification

\* --------------------------------------------------------- program constants
BufferCap  == 1024          \* serialBuffer.length > 1024
AUTH_TOKEN == "secret"      \* config.auth_token
NullToken  == "null"        \* searchParams.get('token') of a URL without token

\* ------------------------------------------------------------------- text
CR == "\r"
LF == "\n"
SP == " "
LeadByte == "L"             \* first byte of a two-byte UTF-8 character
LeadCont == "LT"            \* the two bytes of that character, one after the other
ContByte == "T"             \* continuation byte of that character
TwoByteChar == "e'"         \* the character the two bytes encode
Replacement == "U+FFFD"     \* what toString() yields for an invalid sequence

Str(lit) == << <<lit, 1>> >>

RECURSIVE Norm(_)
Norm(s) ==
  IF Len(s) <= 1 THEN s
  ELSE IF s[1][1] = s[2][1]
       THEN Norm(<< <<s[1][1], s[1][2] + s[2][2]>> >> \o SubSeq(s, 3, Len(s)))
       ELSE <<s[1]>> \o Norm(Tail(s))

\* a + b on strings
Concat(s, t) == Norm(s \o t)

RECURSIVE StrLen(_)
StrLen(s) == IF s = <<>> THEN 0 ELSE s[1][2] + StrLen(Tail(s))

\* Buffer.toString(): UTF-8 decoding of one chunk of bytes
RECURSIVE DecodeRuns(_)
DecodeRuns(b) ==
  IF b = <<>> THEN <<>>
  ELSE IF b[1][1] = LeadCont
  THEN << <<TwoByteChar, b[1][2]>> >> \o DecodeRuns(Tail(b))
  ELSE IF b[1][1] = LeadByte
       THEN IF Len(b) >= 2 /\ b[2][1] = ContByte
            THEN << <<TwoByteChar, 1>> >> \o DecodeRuns(Tail(Tail(b)))
            ELSE << <<Replacement, 1>> >> \o DecodeRuns(Tail(b))
       ELSE IF b[1][1] = ContByte
            THEN << <<Replacement, 1>> >> \o DecodeRuns(Tail(b))
            ELSE <<b[1]>> \o DecodeRuns(Tail(b))

Decode(b) == Norm(DecodeRuns(b))

\* s.replace(/\r/g, '')
RemoveCR(s) == Norm(SelectSeq(s, LAMBDA r : r[1] # CR))

\* s.split('\n'): a non-empty sequence of segments
RECURSIVE SplitLF(_, _)
SplitLF(s, segs) ==
  IF s = <<>> THEN segs
  ELSE IF s[1][1] = LF
       THEN SplitLF(Tail(s), segs \o [i \in 1..s[1][2] |-> <<>>])
       ELSE SplitLF(Tail(s),
                    [segs EXCEPT ![Len(segs)] = Append(segs[Len(segs)], s[1])])

Split(s) == SplitLF(s, << <<>> >>)

\* line.trim()
IsSpace(r) == r[1] \in {SP, CR, LF}

RECURSIVE TrimLeft(_)
TrimLeft(s) == IF s # <<>> /\ IsSpace(s[1]) THEN TrimLeft(Tail(s)) ELSE s

RECURSIVE TrimRight(_)
TrimRight(s) ==
  IF s # <<>> /\ IsSpace(s[Len(s)]) THEN TrimRight(SubSeq(s, 1, Len(s) - 1)) ELSE s

Trim(s) == TrimRight(TrimLeft(s))

\* the lines.forEach of the 'data' handler: trimmed, non-empty complete lines
CompleteLines(lines) ==
  SelectSeq([i \in 1..Len(lines) |-> Trim(lines[i])], LAMBDA l : l # <<>>)

\* variant of CapBuffer: the overflow guard is missing
CapBufferNoReset(rest) == rest

\* the buffer-overflow guard at the end of the 'data' handler
CapBuffer(rest) == IF StrLen(rest) > BufferCap THEN <<>> ELSE rest

\* variant of FrameText: the unterminated last segment is framed as well
FrameTextFlush(text) ==
  LET lines == Split(RemoveCR(text))
  IN  [ frames   |-> CompleteLines(lines),
        residue  |-> <<>>,
        overflow |-> FALSE,
        buffer   |-> <<>> ]

\* the 'data' handler from the replace on: text is serialBuffer after the append
FrameText(text) ==
  LET lines == Split(RemoveCR(text))
      rest  == lines[Len(lines)]
  IN  [ frames   |-> CompleteLines(SubSeq(lines, 1, Len(lines) - 1)),
        residue  |-> rest,
        overflow |-> CapBuffer(rest) # rest,
        buffer   |-> CapBuffer(rest) ]

\* variant of OnData: the incomplete last line is not carried over
OnDataNoCarry(buf, data) == FrameText(Decode(data))

\* one run of the 'data' handler on serialBuffer = buf and the chunk data
OnData(buf, data) == FrameText(Concat(buf, Decode(data)))

\* bytes of the UTF-8 text s
RECURSIVE ByteLen(_)
ByteLen(s) ==
  IF s = <<>> THEN 0
  ELSE (IF s[1][1] = TwoByteChar THEN 2 * s[1][2] ELSE s[1][2]) + ByteLen(Tail(s))

\* ------------------------------------------------------------------ state
Handles == 1..MaxHandles
Clients == 1..MaxClients
Tokens  == {AUTH_TOKEN, "wrong"}

ByteA   == <<"A", 1>>
ByteBig == <<"A", BufferCap>>
ByteOver == <<"A", BufferCap + 1>>
ByteSP  == <<SP, 1>>
ByteCR  == <<CR, 1>>
ByteLF  == <<LF, 1>>
ByteL   == <<LeadByte, 1>>
ByteT   == <<ContByte, 1>>
ByteWide == <<LeadCont, BufferCap - 1>>

\* chunks the device delivers in the lifecycle specification
DataChunks == { <<ByteA>>, <<ByteA, ByteCR, ByteLF>> }
\* payloads a client sends
ClientPayloads == { "P" }
\* err.message of an 'error' event
ErrorMessages == { "E1" }

CRLF          == <<ByteCR, ByteLF>>
PollCommand   == Str("=R") \o CRLF                       \* '=R\r\n'
StatusConnected    == Str("[STATUS] Serial connected")
StatusDisconnected == Str("[STATUS] Serial disconnected")
StatusError(m)     == Str("[STATUS] Serial error: ") \o Str(m)

VARIABLES
  serial,           \* the global handle: the SerialPort created last
  port,             \* per handle: "unused", "opening", "open", "closed", "failed"
  handlers,         \* per handle: how many times setupSerialHandlers registered on it
  serialConnected,  \* the connectivity flag
  pollTimer,        \* 0 (null) or the id of the interval startPolling created last
  intervals,        \* ids of the intervals that are active in the event loop
  retries,          \* pending setTimeout(initSerialPort, 5000) timers
  serialBuffer,     \* text received and not yet framed
  wss,              \* TRUE once the WebSocket server exists
  readyState,       \* per client: "NONE" (not yet connected), "OPEN", "CLOSING", "CLOSED"
  token,            \* per client: the token its URL presented
  listening,        \* per client: TRUE once ws.on('message') is registered
  errors,           \* 'error' events emitted so far
  lastEvent,        \* the event the last handler ran for
  lastWrites,       \* serial.write calls of the last handler
  lastBroadcast,    \* messages the last handler passed to broadcastToClients
  lastSent,         \* per client: messages client.send delivered in the last handler
  pending,          \* framing specification: bytes not yet delivered
  fed,              \* framing specification: bytes delivered so far
  emitted,          \* framing specification: frames broadcast so far
  sinceReset,       \* framing specification: text appended since the buffer was last cleared
  emittedSinceReset,\* framing specification: frames broadcast since the buffer was last cleared
  overflowed,       \* framing specification: the overflow guard has cleared the buffer
  lastResidue,      \* framing specification: lines.pop() of the last 'data' handler
  chunks,           \* framing specification: chunks delivered so far
  splitChar         \* framing specification: a chunk boundary fell inside a character

linkVars   == <<serial, port, handlers, serialConnected, pollTimer, intervals,
                retries, errors>>
clientVars == <<wss, readyState, token, listening>>
framerVars == <<pending, fed, emitted, sinceReset, emittedSinceReset,
                overflowed, lastResidue, chunks, splitChar>>
vars == <<serial, port, handlers, serialConnected, pollTimer, intervals, retries,
          serialBuffer, wss, readyState, token, listening, errors,
          lastEvent, lastWrites, lastBroadcast, lastSent,
          pending, fed, emitted, sinceReset, emittedSinceReset, overflowed,
          lastResidue, chunks, splitChar>>

\* kind of event, the handle or client it is about (0 where no claim needs it),
\* and its argument
Event(kind, id, arg) == [kind |-> kind, id |-> id, arg |-> arg]

\* ---------------------------------------------------------------- helpers
\* wss.clients: sockets accepted and not yet closed
WssClients == {c \in Clients : readyState[c] \in {"OPEN", "CLOSING"}}

\* variant of broadcastToClients: readyState is not looked at
broadcastToAll(sender) ==
  IF ~wss THEN {} ELSE {c \in WssClients : c # sender}

\* the clients a broadcastToClients(message, sender) call sends to
broadcastToClients(sender) ==
  IF ~wss THEN {}
  ELSE {c \in WssClients : c # sender /\ readyState[c] = "OPEN"}

\* per client, what a handler that broadcasts msgs (sender = null) delivers
Deliver(msgs) == [c \in Clients |-> IF c \in broadcastToClients(0) THEN msgs ELSE <<>>]

NoSend == [c \in Clients |-> <<>>]

\* serial.write(data, ...) on the global handle
Write(data) == [data |-> data, handle |-> serial, open |-> port[serial] = "open"]

FreshTimer(iv) == CHOOSE i \in 1..(Cardinality(iv) + 1) :
                    i \notin iv /\ \A j \in 1..(i - 1) : j \in iv

\* variant of startPolling: the running interval is not cleared
startPollingNoClear(pt, iv) ==
  LET id == FreshTimer(iv)
  IN  [pollTimer |-> id, intervals |-> iv \cup {id}]

startPolling(pt, iv) ==
  LET cleared == IF pt # 0 THEN iv \ {pt} ELSE iv
      id      == FreshTimer(cleared)
  IN  [pollTimer |-> id, intervals |-> cleared \cup {id}]

\* variant of stopPolling: the interval is cleared, pollTimer is not set to null
stopPollingKeepsId(pt, iv) ==
  IF pt # 0 THEN [pollTimer |-> pt, intervals |-> iv \ {pt}]
  ELSE [pollTimer |-> pt, intervals |-> iv]

stopPolling(pt, iv) ==
  IF pt # 0 THEN [pollTimer |-> 0, intervals |-> iv \ {pt}]
  ELSE [pollTimer |-> pt, intervals |-> iv]

\* the 'data' listeners of a handle, run one after the other on one chunk
RECURSIVE RunData(_, _, _)
RunData(buf, data, n) ==
  IF n = 0 THEN [frames |-> <<>>, buffer |-> buf]
  ELSE LET r    == OnData(buf, data)
           more == RunData(r.buffer, data, n - 1)
       IN  [frames |-> r.frames \o more.frames, buffer |-> more.buffer]

\* variant of startWebSocketServer: a server is created on every call, and the
\* sockets of the server it replaces are no longer in wss.clients
startWebSocketServerAgain(w, rs) ==
  [wss |-> TRUE,
   readyState |-> [c \in Clients |-> IF rs[c] = "NONE" THEN "NONE" ELSE "CLOSED"]]

\* startWebSocketServer(): a server is created unless wss is already set
startWebSocketServer(w, rs) ==
  IF w THEN [wss |-> w, readyState |-> rs]
  ELSE [wss |-> TRUE, readyState |-> rs]

Repeat(msg, n) == [i \in 1..n |-> msg]

UnusedHandles == {h \in Handles : port[h] = "unused"}
NewHandle == CHOOSE h \in UnusedHandles : \A g \in UnusedHandles : h <= g
DeviceFree == \A h \in Handles : port[h] # "open"

NewClients == {c \in Clients : readyState[c] = "NONE"}
NextClient == CHOOSE c \in NewClients : \A d \in NewClients : c <= d

\* ------------------------------------------------------------------- Init
InitFramerIdle ==
  /\ pending = <<>> /\ fed = <<>> /\ emitted = <<>>
  /\ sinceReset = <<>> /\ emittedSinceReset = <<>>
  /\ overflowed = FALSE /\ splitChar = FALSE
  /\ lastResidue = <<>> /\ chunks = 0

\* the state after the script has run: initSerialPort() was called once
Init ==
  /\ serial = 1
  /\ port = [h \in Handles |-> IF h = 1 THEN "opening" ELSE "unused"]
  /\ handlers = [h \in Handles |-> 0]
  /\ serialConnected = FALSE
  /\ pollTimer = 0
  /\ intervals = {}
  /\ retries = 0
  /\ serialBuffer = <<>>
  /\ wss = FALSE
  /\ readyState = [c \in Clients |-> "NONE"]
  /\ token = [c \in Clients |-> NullToken]
  /\ listening = [c \in Clients |-> FALSE]
  /\ errors = 0
  /\ lastEvent = Event("start", 0, "")
  /\ lastWrites = <<>>
  /\ lastBroadcast = <<>>
  /\ lastSent = NoSend
  /\ InitFramerIdle

\* ---------------------------------------------------------------- actions
\* a pending retry timer fires: initSerialPort()
initSerialPort ==
  /\ retries > 0
  /\ UnusedHandles # {}
  /\ retries' = retries - 1
  /\ serial' = NewHandle
  /\ port' = [port EXCEPT ![NewHandle] = "opening"]
  /\ lastEvent' = Event("retry", 0, "")
  /\ lastWrites' = <<>> /\ lastBroadcast' = <<>> /\ lastSent' = NoSend
  /\ UNCHANGED <<handlers, serialConnected, pollTimer, intervals, errors,
                 serialBuffer, clientVars, framerVars>>

\* serial.open callback with an error
OpenFailed(h) ==
  /\ port[h] = "opening"
  /\ port' = [port EXCEPT ![h] = "failed"]
  /\ retries' = retries + 1
  /\ lastEvent' = Event("openfail", 0, "")
  /\ lastWrites' = <<>> /\ lastBroadcast' = <<>> /\ lastSent' = NoSend
  /\ UNCHANGED <<serial, handlers, serialConnected, pollTimer, intervals, errors,
                 serialBuffer, clientVars, framerVars>>

\* serial.open callback without error; the device is held by one handle at a time
OpenSucceeded(h) ==
  /\ port[h] = "opening"
  /\ DeviceFree
  /\ port' = [port EXCEPT ![h] = "open"]
  /\ serialConnected' = TRUE
  /\ LET g == startWebSocketServer(wss, readyState)
     IN  wss' = g.wss /\ readyState' = g.readyState
  /\ lastBroadcast' = <<StatusConnected>>
  /\ lastSent' = Deliver(<<StatusConnected>>)   \* a server created here has no clients
  /\ handlers' = [handlers EXCEPT ![serial] = @ + 1]      \* setupSerialHandlers
  /\ LET p == startPolling(pollTimer, intervals)
     IN  pollTimer' = p.pollTimer /\ intervals' = p.intervals
  /\ lastEvent' = Event("open", h, IF pollTimer # 0 THEN "restart" ELSE "start")
  /\ lastWrites' = <<>>
  /\ UNCHANGED <<serial, retries, errors, serialBuffer,
                 token, listening, framerVars>>

\* 'error' on a handle: every registered listener runs
SerialError(h, m) ==
  /\ port[h] \in {"open", "closed"}
  /\ handlers[h] > 0
  /\ errors < MaxErrors
  /\ errors' = errors + 1
  /\ serialConnected' = FALSE
  /\ LET p == stopPolling(pollTimer, intervals)
     IN  pollTimer' = p.pollTimer /\ intervals' = p.intervals
  /\ lastBroadcast' = Repeat(StatusError(m), handlers[h])
  /\ lastSent' = Deliver(Repeat(StatusError(m), handlers[h]))
  /\ retries' = retries + handlers[h]
  /\ lastEvent' = Event("error", h, m)
  /\ lastWrites' = <<>>
  /\ UNCHANGED <<serial, port, handlers, serialBuffer, clientVars, framerVars>>

\* variant of SerialClose: the 'close' listener also empties serialBuffer
SerialCloseClearsBuffer(h) ==
  /\ port[h] = "open"
  /\ port' = [port EXCEPT ![h] = "closed"]
  /\ IF handlers[h] > 0
     THEN /\ serialConnected' = FALSE
          /\ serialBuffer' = <<>>
          /\ LET p == stopPolling(pollTimer, intervals)
             IN  pollTimer' = p.pollTimer /\ intervals' = p.intervals
     ELSE UNCHANGED <<serialConnected, pollTimer, intervals, serialBuffer>>
  /\ lastBroadcast' = Repeat(StatusDisconnected, handlers[h])
  /\ lastSent' = Deliver(Repeat(StatusDisconnected, handlers[h]))
  /\ retries' = retries + handlers[h]
  /\ lastEvent' = Event("close", h, "")
  /\ lastWrites' = <<>>
  /\ UNCHANGED <<serial, handlers, errors, clientVars, framerVars>>

\* 'close' on a handle: the device is released, every registered listener runs
SerialClose(h) ==
  /\ port[h] = "open"
  /\ port' = [port EXCEPT ![h] = "closed"]
  /\ IF handlers[h] > 0
     THEN /\ serialConnected' = FALSE
          /\ LET p == stopPolling(pollTimer, intervals)
             IN  pollTimer' = p.pollTimer /\ intervals' = p.intervals
     ELSE UNCHANGED <<serialConnected, pollTimer, intervals>>
  /\ lastBroadcast' = Repeat(StatusDisconnected, handlers[h])
  /\ lastSent' = Deliver(Repeat(StatusDisconnected, handlers[h]))
  /\ retries' = retries + handlers[h]
  /\ lastEvent' = Event("close", h, "")
  /\ lastWrites' = <<>>
  /\ UNCHANGED <<serial, handlers, errors, serialBuffer, clientVars, framerVars>>

\* 'data' on an open handle: every registered listener runs
SerialData(h, data) ==
  /\ port[h] = "open"
  /\ handlers[h] > 0
  /\ LET r == RunData(serialBuffer, data, handlers[h])
     IN  /\ StrLen(r.buffer) <= MaxBuffered
         /\ serialBuffer' = r.buffer
         /\ lastBroadcast' = r.frames
         /\ lastSent' = Deliver(r.frames)
  /\ lastEvent' = Event("data", 0, "")
  /\ lastWrites' = <<>>
  /\ UNCHANGED <<linkVars, clientVars, framerVars>>

\* an active interval fires: the callback startPolling installed
PollTick(t) ==
  /\ t \in intervals
  /\ lastWrites' = IF serialConnected THEN <<Write(PollCommand)>> ELSE <<>>
  /\ lastEvent' = Event("tick", 0, "")
  /\ lastBroadcast' = <<>> /\ lastSent' = NoSend
  /\ UNCHANGED <<linkVars, serialBuffer, clientVars, framerVars>>

\* variant of Connection: the token is not compared
ConnectionNoAuth(c, tok) ==
  /\ wss
  /\ NewClients # {} /\ c = NextClient
  /\ token' = [token EXCEPT ![c] = tok]
  /\ readyState' = [readyState EXCEPT ![c] = "OPEN"]
  /\ lastWrites' = IF serialConnected THEN <<Write(PollCommand)>> ELSE <<>>
  /\ listening' = [listening EXCEPT ![c] = TRUE]
  /\ lastEvent' = Event("connect", c, tok)
  /\ lastBroadcast' = <<>> /\ lastSent' = NoSend
  /\ UNCHANGED <<linkVars, serialBuffer, wss, framerVars>>

\* variant of Connection: the immediate poll is not guarded by serialConnected
ConnectionNoGuard(c, tok) ==
  /\ wss
  /\ NewClients # {} /\ c = NextClient
  /\ token' = [token EXCEPT ![c] = tok]
  /\ IF tok # AUTH_TOKEN
     THEN /\ readyState' = [readyState EXCEPT ![c] = "CLOSING"]
          /\ lastWrites' = <<>>
          /\ UNCHANGED listening
     ELSE /\ readyState' = [readyState EXCEPT ![c] = "OPEN"]
          /\ lastWrites' = <<Write(PollCommand)>>
          /\ listening' = [listening EXCEPT ![c] = TRUE]
  /\ lastEvent' = Event("connect", c, tok)
  /\ lastBroadcast' = <<>> /\ lastSent' = NoSend
  /\ UNCHANGED <<linkVars, serialBuffer, wss, framerVars>>

\* variant of Connection: the accepted client is sent the current link status
ConnectionNotifies(c, tok) ==
  /\ wss
  /\ NewClients # {} /\ c = NextClient
  /\ token' = [token EXCEPT ![c] = tok]
  /\ IF tok # AUTH_TOKEN
     THEN /\ readyState' = [readyState EXCEPT ![c] = "CLOSING"]
          /\ lastWrites' = <<>>
          /\ lastSent' = NoSend
          /\ UNCHANGED listening
     ELSE /\ readyState' = [readyState EXCEPT ![c] = "OPEN"]
          /\ lastWrites' = IF serialConnected THEN <<Write(PollCommand)>> ELSE <<>>
          /\ lastSent' = [NoSend EXCEPT ![c] =
                            IF serialConnected THEN <<StatusConnected>>
                            ELSE <<StatusDisconnected>>]
          /\ listening' = [listening EXCEPT ![c] = TRUE]
  /\ lastEvent' = Event("connect", c, tok)
  /\ lastBroadcast' = <<>>
  /\ UNCHANGED <<linkVars, serialBuffer, wss, framerVars>>

\* wss 'connection': the socket is OPEN and in wss.clients when the handler runs
Connection(c, tok) ==
  /\ wss
  /\ NewClients # {} /\ c = NextClient
  /\ token' = [token EXCEPT ![c] = tok]
  /\ IF tok # AUTH_TOKEN
     THEN /\ readyState' = [readyState EXCEPT ![c] = "CLOSING"]   \* ws.close()
          /\ lastWrites' = <<>>
          /\ UNCHANGED listening
     ELSE /\ readyState' = [readyState EXCEPT ![c] = "OPEN"]
          /\ lastWrites' = IF serialConnected THEN <<Write(PollCommand)>> ELSE <<>>
          /\ listening' = [listening EXCEPT ![c] = TRUE]
  /\ lastEvent' = Event("connect", c, tok)
  /\ lastBroadcast' = <<>> /\ lastSent' = NoSend
  /\ UNCHANGED <<linkVars, serialBuffer, wss, framerVars>>

\* variant of Message: serialConnected is not looked at
MessageNoGuard(c, payload) ==
  /\ readyState[c] \in {"OPEN", "CLOSING"}
  /\ lastWrites' = IF listening[c] THEN <<Write(Str(payload) \o CRLF)>> ELSE <<>>
  /\ lastEvent' = Event("message", c, payload)
  /\ lastBroadcast' = <<>> /\ lastSent' = NoSend
  /\ UNCHANGED <<linkVars, serialBuffer, clientVars, framerVars>>

\* a connected socket delivers a text message; ws 'message' listeners run
Message(c, payload) ==
  /\ readyState[c] \in {"OPEN", "CLOSING"}
  /\ lastWrites' = IF listening[c] /\ serialConnected
                   THEN <<Write(Str(payload) \o CRLF)>> ELSE <<>>
  /\ lastEvent' = Event("message", c, payload)
  /\ lastBroadcast' = <<>> /\ lastSent' = NoSend
  /\ UNCHANGED <<linkVars, serialBuffer, clientVars, framerVars>>

\* variant of WriteError: a failed write is treated as a link failure
WriteErrorDisconnects ==
  /\ lastEvent.kind \in {"tick", "message"}
  /\ lastWrites # <<>>
  /\ serialConnected' = FALSE
  /\ LET p == stopPolling(pollTimer, intervals)
     IN  pollTimer' = p.pollTimer /\ intervals' = p.intervals
  /\ lastEvent' = Event("writeerror", 0, "")
  /\ lastWrites' = <<>> /\ lastBroadcast' = <<>> /\ lastSent' = NoSend
  /\ UNCHANGED <<serial, port, handlers, retries, errors, serialBuffer,
                 clientVars, framerVars>>

\* the callback of the serial.write of a poll tick or of a client message is
\* called with an error: it is logged
WriteError ==
  /\ lastEvent.kind \in {"tick", "message"}
  /\ lastWrites # <<>>
  /\ lastEvent' = Event("writeerror", 0, "")
  /\ lastWrites' = <<>> /\ lastBroadcast' = <<>> /\ lastSent' = NoSend
  /\ UNCHANGED <<linkVars, serialBuffer, clientVars, framerVars>>

\* a socket finishes closing and leaves wss.clients; ws 'close' listener only logs
Disconnect(c) ==
  /\ readyState[c] \in {"OPEN", "CLOSING"}
  /\ readyState' = [readyState EXCEPT ![c] = "CLOSED"]
  /\ lastEvent' = Event("wsclose", 0, "")
  /\ lastWrites' = <<>> /\ lastBroadcast' = <<>> /\ lastSent' = NoSend
  /\ UNCHANGED <<linkVars, serialBuffer, wss, token, listening,
                 framerVars>>

Next ==
  \/ initSerialPort
  \/ \E h \in Handles : OpenFailed(h)
  \/ \E h \in Handles : OpenSucceeded(h)
  \/ \E h \in Handles, m \in ErrorMessages : SerialError(h, m)
  \/ \E h \in Handles : SerialClose(h)
  \/ \E h \in Handles, d \in DataChunks : SerialData(h, d)
  \/ \E t \in intervals : PollTick(t)
  \/ \E c \in Clients, tok \in Tokens : Connection(c, tok)
  \/ \E c \in Clients, p \in ClientPayloads : Message(c, p)
  \/ WriteError
  \/ \E c \in Clients : Disconnect(c)

Spec == Init /\ [][Next]_vars

\* ------------------------------------------------- framing specification
\* The 'data' handler alone: the link has been opened once (the state after
\* OpenSucceeded(1)), and a byte sequence is delivered in chunks of any sizes.
ByteRuns == {ByteA, ByteBig, ByteOver, ByteSP, ByteCR, ByteLF, ByteL, ByteT, ByteWide}
ByteSeqs == UNION {[1..n -> ByteRuns] : n \in 0..MaxBytes}

InitFramer ==
  /\ serial = 1
  /\ port = [h \in Handles |-> IF h = 1 THEN "open" ELSE "unused"]
  /\ handlers = [h \in Handles |-> IF h = 1 THEN 1 ELSE 0]
  /\ serialConnected = TRUE
  /\ pollTimer = 1
  /\ intervals = {1}
  /\ retries = 0
  /\ serialBuffer = <<>>
  /\ wss = TRUE
  /\ readyState = [c \in Clients |-> "NONE"]
  /\ token = [c \in Clients |-> NullToken]
  /\ listening = [c \in Clients |-> FALSE]
  /\ errors = 0
  /\ lastEvent = Event("open", 1, "start")
  /\ lastWrites = <<>>
  /\ lastBroadcast = <<StatusConnected>>
  /\ lastSent = NoSend
  /\ pending \in ByteSeqs
  /\ fed = <<>> /\ emitted = <<>>
  /\ sinceReset = <<>> /\ emittedSinceReset = <<>>
  /\ overflowed = FALSE /\ splitChar = FALSE
  /\ lastResidue = <<>> /\ chunks = 0

\* 'data' with the next k byte runs of the input
FeedChunk(k) ==
  /\ k \in 1..Len(pending)
  /\ port[serial] = "open" /\ handlers[serial] = 1
  /\ LET data == SubSeq(pending, 1, k)
         r    == OnData(serialBuffer, data)
     IN  /\ serialBuffer' = r.buffer
         /\ lastBroadcast' = r.frames
         /\ lastSent' = Deliver(r.frames)
         /\ pending' = SubSeq(pending, k + 1, Len(pending))
         /\ fed' = fed \o data
         /\ emitted' = emitted \o r.frames
         /\ lastResidue' = r.residue
         /\ overflowed' = (overflowed \/ r.overflow)
         /\ sinceReset' = IF r.overflow THEN <<>>
                          ELSE Concat(sinceReset, Decode(data))
         /\ emittedSinceReset' = IF r.overflow THEN <<>>
                                 ELSE emittedSinceReset \o r.frames
         /\ splitChar' = (splitChar \/
                            Decode(fed \o data) # Concat(Decode(fed), Decode(data)))
  /\ chunks' = chunks + 1
  /\ lastEvent' = Event("data", 0, "")
  /\ lastWrites' = <<>>
  /\ UNCHANGED <<linkVars, clientVars>>

NextFramer == \E k \in 1..MaxBytes : FeedChunk(k)

SpecFramer == InitFramer /\ [][NextFramer]_vars

\* ------------------------------------------------------------------ claims
Rejected(c) == readyState[c] # "NONE" /\ token[c] # AUTH_TOKEN
Authenticated(c) == readyState[c] # "NONE" /\ token[c] = AUTH_TOKEN

\* C1: every serial.write of every handler is issued on a handle that is open,
\* and while serialConnected is true the global handle is an open one.
C1_WritesOnOpenLink ==
  /\ \A i \in 1..Len(lastWrites) : lastWrites[i].open
  /\ serialConnected => port[serial] = "open"

\* C2: at most one retry timer that will call initSerialPort is pending.
C2_AtMostOneRetry == retries <= 1

\* C3 as stated: whatever the chunking, the frames broadcast so far are the
\* frames of the same bytes delivered as one chunk.
C3_ChunkIndependent == emitted = OnData(<<>>, fed).frames

\* C3 amended: the same, provided no chunk boundary fell inside a multi-byte
\* character and the overflow guard never cleared the buffer.
C3_ChunkIndependentNoLoss ==
  (~overflowed /\ ~splitChar) => emitted = OnData(<<>>, fed).frames

\* C3 witness: "A" then "A\n" (or "AA" then "\n") gave the one frame "AA".
C3_Witness ==
  /\ chunks = 2 /\ pending = <<>>
  /\ fed = <<ByteA, ByteA, ByteLF>>
  /\ emitted = << Norm(<<ByteA, ByteA>>) >>
  /\ ~overflowed /\ ~splitChar

\* what C4 says of the buffer whatever the unit of the limit: the buffer never
\* holds more than 1024 characters, and the frames broadcast since the buffer was
\* last cleared, and the buffer itself, come from the text received since then.
C4_NothingDiscardedReturns ==
  /\ StrLen(serialBuffer) <= BufferCap
  /\ emittedSinceReset = FrameText(sinceReset).frames
  /\ serialBuffer = FrameText(sinceReset).buffer

\* C4 as stated: a residue of more than 1024 bytes is cleared.
C4_ResetOverBytes ==
  /\ (chunks > 0 /\ ByteLen(lastResidue) > BufferCap) => serialBuffer = <<>>
  /\ C4_NothingDiscardedReturns

\* C4 amended: a residue of more than 1024 characters (the length of the decoded
\* text) is cleared, a shorter one is kept.
C4_ResetOverChars ==
  /\ chunks > 0 =>
       serialBuffer = (IF StrLen(lastResidue) > BufferCap THEN <<>> ELSE lastResidue)
  /\ C4_NothingDiscardedReturns

\* C4 witness: a residue of more than 1024 characters was cleared and a later
\* line framed.
C4_Witness ==
  /\ overflowed /\ emittedSinceReset # <<>>
  /\ emitted = emittedSinceReset

\* C5: a connection that presented a wrong token is never OPEN after its handler,
\* has no message listener, is sent nothing by any handler, and neither its
\* connect nor its messages cause a write.
C5_RejectedIsolated ==
  \A c \in Clients : Rejected(c) =>
    /\ readyState[c] \in {"CLOSING", "CLOSED"}
    /\ ~listening[c]
    /\ lastSent[c] = <<>>
    /\ (lastEvent.kind \in {"connect", "message"} /\ lastEvent.id = c)
         => lastWrites = <<>>

\* C5 witness: a rejected socket is still in wss.clients while another client is
\* sent a broadcast.
C5_Witness ==
  \E c, d \in Clients :
    /\ Rejected(c) /\ readyState[c] = "CLOSING"
    /\ lastSent[d] # <<>>

\* C6: what a handler broadcasts is delivered to exactly the clients that are
\* open and authenticated.
C6_BroadcastRecipients ==
  \A c \in Clients :
    lastSent[c] = IF readyState[c] = "OPEN" /\ Authenticated(c)
                  THEN lastBroadcast ELSE <<>>

\* C6 witness: a broadcast with one client open, one rejected and not yet closed.
C6_Witness ==
  \E c, d \in Clients :
    /\ lastBroadcast # <<>>
    /\ readyState[c] = "OPEN" /\ lastSent[c] = lastBroadcast
    /\ readyState[d] = "CLOSING"

\* C7: after a 'close' or an 'error' of a link handle every open client has the
\* status message, the flag is false, no interval is active, the event wrote
\* nothing and a retry is pending; and no handler writes while the flag is false.
C7_LinkDownHandled ==
  /\ lastEvent.kind \in {"close", "error"} =>
       /\ \A c \in Clients : readyState[c] = "OPEN" => lastSent[c] # <<>>
       /\ ~serialConnected
       /\ pollTimer = 0 /\ intervals = {}
       /\ lastWrites = <<>>
       /\ retries >= 1
  /\ ~serialConnected => lastWrites = <<>>

\* C8: a message handled while serialConnected is false writes nothing and
\* changes neither the link nor the clients; and every write of a client payload
\* is made by the handler of that very message.
C8_DroppedWhileDisconnected ==
  [][ /\ (lastEvent'.kind = "message" /\ ~serialConnected) =>
          /\ lastWrites' = <<>>
          /\ UNCHANGED <<linkVars, serialBuffer, clientVars>>
      /\ \A i \in 1..Len(lastWrites') :
            \/ lastWrites'[i].data = PollCommand
            \/ /\ lastEvent'.kind = "message"
               /\ lastWrites'[i].data = Str(lastEvent'.arg) \o CRLF
               /\ serialConnected
    ]_vars

\* C8 witness: an open, authenticated client sent a payload while the link was down.
C8_Witness ==
  /\ lastEvent.kind = "message" /\ ~serialConnected
  /\ readyState[lastEvent.id] = "OPEN" /\ listening[lastEvent.id]
  /\ lastWrites = <<>>

\* C9: the connect of a client with the right token writes the poll command once
\* if serialConnected and nothing otherwise, and changes nothing of the link.
C9_ConnectPollsOnce ==
  [][ (lastEvent'.kind = "connect" /\ lastEvent'.arg = AUTH_TOKEN) =>
        /\ lastWrites' = IF serialConnected THEN <<Write(PollCommand)>> ELSE <<>>
        /\ UNCHANGED <<linkVars, serialBuffer>>
    ]_vars

\* C9 witness: a client with the right token connected while the link was up.
C9_Witness ==
  /\ lastEvent.kind = "connect" /\ lastEvent.arg = AUTH_TOKEN
  /\ serialConnected /\ Len(lastWrites) = 1

\* C10: at most one interval is active.
C10_OneInterval == Cardinality(intervals) <= 1

\* C10 witness: startPolling ran while an interval was active.
C10_Witness ==
  /\ lastEvent.kind = "open" /\ lastEvent.arg = "restart"
  /\ intervals # {}

\* C11: after the open callback reported an error the state is not Connected
\* (flag false, no poll timer) and a retry is pending.
C11_OpenFailureLeavesDisconnected ==
  lastEvent.kind = "openfail" =>
    /\ ~serialConnected
    /\ pollTimer = 0 /\ intervals = {}
    /\ retries >= 1

\* C12: a write callback called with an error changes neither the link (flag,
\* poll timer, intervals, pending retries, handles), nor the accumulation
\* buffer, nor the clients; it writes and sends nothing.
C12_WriteErrorChangesNothing ==
  [][ lastEvent'.kind = "writeerror" =>
        /\ UNCHANGED <<linkVars, serialBuffer, clientVars>>
        /\ lastWrites' = <<>> /\ lastBroadcast' = <<>> /\ lastSent' = NoSend
    ]_vars

\* C12 witness: a write failed while the link was Connected and polling.
C12_Witness ==
  /\ lastEvent.kind = "writeerror"
  /\ serialConnected /\ pollTimer # 0 /\ intervals # {}

\* C13: after a successful open of a handle the flag is true, the one status
\* message has been broadcast to the open authenticated clients, the handle that
\* was opened has the lifecycle listeners, the gateway exists and exactly the
\* current poll interval is running.
C13_OpenEstablishesLink ==
  lastEvent.kind = "open" =>
    /\ serialConnected
    /\ lastBroadcast = <<StatusConnected>>
    /\ \A c \in Clients :
         lastSent[c] = IF readyState[c] = "OPEN" /\ Authenticated(c)
                       THEN <<StatusConnected>> ELSE <<>>
    /\ handlers[lastEvent.id] >= 1
    /\ wss
    /\ pollTimer # 0 /\ intervals = {pollTimer}

\* C14 as stated: the handler of a connect with the right token sends that
\* client a message.
C14_NewClientNotified ==
  (lastEvent.kind = "connect" /\ lastEvent.arg = AUTH_TOKEN)
    => lastSent[lastEvent.id] # <<>>

\* C14 amended: the handler of a connect with the right token sends and
\* broadcasts nothing, whatever the link state; it writes the poll command
\* exactly when serialConnected is true.
C14_NewClientSentNothing ==
  (lastEvent.kind = "connect" /\ lastEvent.arg = AUTH_TOKEN) =>
    /\ lastSent = NoSend
    /\ lastBroadcast = <<>>
    /\ (lastWrites # <<>>) <=> serialConnected

\* C14 witness: a client with the right token was accepted while the link was
\* down.
C14_Witness ==
  /\ lastEvent.kind = "connect" /\ lastEvent.arg = AUTH_TOKEN
  /\ ~serialConnected
  /\ readyState[lastEvent.id] = "OPEN"

\* C15: an 'error' or 'close' of a link handle changes nothing of the gateway
\* and its clients; a connect with the right token is accepted whatever the link
\* state; and while no handle holds the device open (the link failed or was
\* never opened, and has not re-opened) no handler writes to the link.
C15_GatewaySurvivesLinkFailure ==
  [][ /\ lastEvent'.kind \in {"error", "close"} => UNCHANGED clientVars
      /\ (lastEvent'.kind = "connect" /\ lastEvent'.arg = AUTH_TOKEN) =>
           /\ readyState'[lastEvent'.id] = "OPEN"
           /\ listening'[lastEvent'.id]
      /\ (\A h \in Handles : port'[h] # "open") => lastWrites' = <<>>
    ]_vars

\* line-feeds in a text
RECURSIVE LFCount(_)
LFCount(s) ==
  IF s = <<>> THEN 0
  ELSE (IF s[1][1] = LF THEN s[1][2] ELSE 0) + LFCount(Tail(s))

\* the text before the first line-feed (the whole text if it has none)
RECURSIVE BeforeFirstLF(_)
BeforeFirstLF(s) ==
  IF s = <<>> \/ s[1][1] = LF THEN <<>>
  ELSE <<s[1]>> \o BeforeFirstLF(Tail(s))

\* the text after the last line-feed (the whole text if it has none)
RECURSIVE AfterLastLF(_)
AfterLastLF(s) ==
  IF s = <<>> \/ s[Len(s)][1] = LF THEN <<>>
  ELSE AfterLastLF(SubSeq(s, 1, Len(s) - 1)) \o <<s[Len(s)]>>

\* C16: a chunk without a line-feed broadcasts nothing and is appended, '\r'
\* removed, to the buffer (unless that exceeds the cap); a chunk with line-feeds
\* broadcasts at most one frame per line-feed, the first being the trimmed
\* concatenation of the buffer and the chunk's text up to its first line-feed
\* if that is not blank, and leaves the text after its last line-feed in the
\* buffer.
C16_FrameNeedsTerminator ==
  [][ chunks' = chunks + 1 =>
        LET data  == SubSeq(pending, 1, Len(pending) - Len(pending'))
            text  == RemoveCR(Decode(data))
            first == Trim(Concat(serialBuffer, BeforeFirstLF(text)))
        IN  IF LFCount(text) = 0
            THEN /\ lastBroadcast' = <<>>
                 /\ StrLen(Concat(serialBuffer, text)) <= BufferCap
                      => serialBuffer' = Concat(serialBuffer, text)
            ELSE /\ Len(lastBroadcast') <= LFCount(text)
                 /\ first # <<>> =>
                      lastBroadcast' # <<>> /\ lastBroadcast'[1] = first
                 /\ (first = <<>> /\ LFCount(text) = 1) => lastBroadcast' = <<>>
                 /\ StrLen(AfterLastLF(text)) <= BufferCap
                      => serialBuffer' = AfterLastLF(text)
    ]_vars

\* C16 witness: "A" was buffered, the next chunk brought "A\n" (or "AA" was
\* buffered and the next chunk brought "\n"), and that chunk's handler broadcast
\* the one frame "AA" and left the buffer empty.
C16_Witness ==
  /\ chunks = 2 /\ fed = <<ByteA, ByteA, ByteLF>>
  /\ lastBroadcast = << Norm(<<ByteA, ByteA>>) >>
  /\ emitted = lastBroadcast
  /\ serialBuffer = <<>>

\* C17: after every handler serialConnected is true exactly when pollTimer is
\* not null, and pollTimer, when not null, is the one running interval.
C17_FlagIffPolling ==
  /\ serialConnected <=> pollTimer # 0
  /\ intervals = IF pollTimer # 0 THEN {pollTimer} ELSE {}

\* C17 witness: an open attempt failed while another handle had been opened, so
\* the flag is true, the interval runs and a retry is pending.
C17_Witness ==
  /\ lastEvent.kind = "openfail"
  /\ serialConnected /\ pollTimer # 0
  /\ retries >= 1

\* C18: at most one open attempt is in flight, and initSerialPort never runs
\* while serialConnected is true.
C18_OneOpenAttempt ==
  /\ Cardinality({h \in Handles : port[h] = "opening"}) <= 1
  /\ lastEvent.kind = "retry" => ~serialConnected

\* C19: wss is set exactly once, by the first successful open, and stays set;
\* while it is not set no handle has been opened, no client has connected and
\* nothing has been delivered; and a successful open changes no client.
C19_GatewayCreatedOnce ==
  [][ /\ wss => wss'
      /\ (~wss /\ wss') =>
           /\ lastEvent'.kind = "open"
           /\ \A h \in Handles : port[h] \notin {"open", "closed"}
      /\ ~wss' =>
           /\ \A h \in Handles : port'[h] \notin {"open", "closed"}
           /\ \A c \in Clients : readyState'[c] = "NONE"
           /\ lastSent' = NoSend
      /\ lastEvent'.kind = "open" =>
           /\ wss'
           /\ UNCHANGED <<readyState, token, listening>>
    ]_vars

\* C19 witness: a later handle was opened while a client was connected.
C19_Witness ==
  /\ lastEvent.kind = "open" /\ lastEvent.id # 1
  /\ \E c \in Clients : readyState[c] = "OPEN" /\ listening[c]

\* C20: 'error', 'close', a retry and the open callback (with or without error)
\* leave serialBuffer as it is; and the first line a 'data' handler broadcasts
\* is the trimmed concatenation of serialBuffer, whatever link it was received
\* on, and the chunk's text up to its first line-feed.
C20_BufferSurvivesReopen ==
  [][ /\ lastEvent'.kind \in {"error", "close", "retry", "openfail", "open"}
           => serialBuffer' = serialBuffer
      /\ (lastEvent'.kind = "data" /\ lastBroadcast' # <<>>) =>
           \E d \in DataChunks :
             /\ LFCount(Decode(d)) > 0
             /\ lastBroadcast'[1] =
                  Trim(Concat(serialBuffer, BeforeFirstLF(RemoveCR(Decode(d)))))
    ]_vars

\* C20 witness: a later handle was opened with unterminated text from an
\* earlier link still in the buffer.
C20_Witness ==
  /\ lastEvent.kind = "open" /\ lastEvent.id # 1
  /\ serialBuffer # <<>>

====
